---- MODULE Spec2Model ----
(***************************************************************************)
(* A model of cemu's Emulator class (src/cemu/emulator.py): one Emulator   *)
(* session driving a unicorn VM instance.  Every public method is one      *)
(* action; run() is blocking and single-threaded, so the whole             *)
(* emu_start/hook_code loop is computed inside the Run action.             *)
(*                                                                         *)
(* The unicorn backend is abstracted to: a set of mapped ranges, a byte    *)
(* memory, and the two registers the class touches by role (PC and SP).    *)
(* Machine code is abstracted to two-byte instructions: one opcode that    *)
(* executes, and opcodes whose execution faults.                           *)
(***************************************************************************)
EXTENDS Integers, Sequences, FiniteSets

\* ----------------------------------------------------------------- bounds
\* Longest program the assembler collaborator returns, in instructions.
MaxInsns == 2
\* Highest address of the modelled address space.
MaxAddr == 7

Addr == 0..MaxAddr

\* ------------------------------------------------------ values and inputs
\* self.start_addr / self.end_addr are not created by __init__ or reinit;
\* Unset stands for "attribute does not exist yet".
Unset == -2
\* populate_memory sets end_addr to -1: "unbounded".
Unbounded == -1

\* Byte values.  0 is the content of freshly mapped memory.  Every
\* instruction is an opcode byte followed by one operand byte.
OpA == 1    \* opcode of an instruction without memory operands
OpF == 2    \* opcode of an instruction whose execution faults in the backend
Imm == 3    \* the operand byte
InsnSize == 2

\* mode.get_pc() / mode.get_sp() for the session's architecture.
PcReg == "eip"
SpReg == "esp"
KnownRegs == {PcReg, SpReg}

\* self.code is None
NoneCode == [none |-> TRUE, bytes |-> <<>>]
Bytes(b) == [none |-> FALSE, bytes |-> b]

\* One observable effect of an operation: a line on a stream, or a call made
\* on the backend.  k: kind, t: text tag, a: address or value, n: length.
Ev(k, t, a, n) == [k |-> k, t |-> t, a |-> a, n |-> n]

RECURSIVE Encode(_)
Encode(insns) ==
    IF insns = <<>> THEN <<>>
    ELSE <<IF Head(insns) = "f" THEN OpF ELSE OpA, Imm>> \o Encode(Tail(insns))

\* Straight-line instruction sequences handed to compile_code: runs of
\* 1..MaxInsns instructions, and one whose last instruction faults.
Programs ==
    {<<"a", "f">>} \cup {[i \in 1..n |-> "a"] : n \in 1..MaxInsns}

\* What the assembler collaborator returns for them: (bytes, count) on
\* success; on failure a negative count with a buffer the interface leaves
\* unspecified (empty, or the bytes assembled before the error).
AssembleOutcomes ==
    {[code |-> Encode(p), num |-> Len(p)] : p \in Programs} \cup
    {[code |-> b, num |-> -1] : b \in {<<>>, <<OpA>>}}

\* Region layouts handed to populate_memory: (name, address, size,
\* permission, readable input file content or none).
NoFile == [given |-> FALSE, data |-> <<>>]
Area(nm, a, s, p, f) == [name |-> nm, address |-> a, size |-> s, perm |-> p, file |-> f]
LayoutFull ==
    << Area(".text", 1, 6, {"READ", "EXEC"}, NoFile),
       Area(".stack", 7, 1, {"READ", "WRITE"}, NoFile) >>
LayoutNoText ==
    << Area(".stack", 7, 1, {"READ", "WRITE"}, NoFile) >>
LayoutFile ==
    << Area(".text", 3, 2, {"READ", "EXEC"},
            [given |-> TRUE, data |-> <<OpA, Imm, OpA>>]) >>
Layouts == {LayoutFull, LayoutNoText, LayoutFile}

\* Register mappings handed to populate_registers, in iteration order.
Seeds ==
    { <<>>,
      << <<PcReg, 7>>, <<SpReg, 0>> >>,
      << <<SpReg, 0>>, <<"zz", 1>>, <<PcReg, 7>> >> }

\* ------------------------------------------------------------------ state
VARIABLES
    vm,             \* self.vm: the unicorn instance, or none (live = FALSE)
    code,           \* self.code
    num_insns,      \* self.num_insns
    is_running,     \* self.is_running
    stop_now,       \* self.stop_now
    use_step_mode,  \* self.use_step_mode
    areas,          \* self.areas: name -> [address, size, permission]
    start_addr,     \* self.start_addr
    end_addr,       \* self.end_addr
    widget,         \* self.widget: whether a presentation collaborator is attached
    lastOp,         \* history: the operation called last and its argument
    result,         \* history: what that call returned or raised
    events,         \* history: stream lines and backend calls of that call
    finished,       \* history: run() reported the end of emulation since reinit
    pipe            \* history: progress through populate/compile/map/seed/step

vars == <<vm, code, num_insns, is_running, stop_now, use_step_mode, areas,
          start_addr, end_addr, widget, lastOp, result, events, finished, pipe>>

ZeroMem == [a \in Addr |-> 0]
NoVM == [live |-> FALSE, hooks |-> {}, mapped |-> {}, mem |-> ZeroMem,
         regs |-> [r \in KnownRegs |-> 0]]
NoWidget == [attached |-> FALSE]

Op(o, a) == [op |-> o, arg |-> a]

\* ---------------------------------------------------------------- backend
Range(a, s) == a..(a + s - 1)
RangeOf(m) == Range(m.address, m.size)
MappedAddrs(v) == UNION {RangeOf(m) : m \in v.mapped}

\* uc.mem_map: rejected when the range overlaps an existing mapping or
\* leaves the address space.
CanMap(v, a, s) ==
    /\ s > 0
    /\ Range(a, s) \subseteq Addr
    /\ Range(a, s) \cap MappedAddrs(v) = {}

MemMap(v, a, s, p) ==
    [v EXCEPT !.mapped = @ \cup {[address |-> a, size |-> s, perm |-> p]}]

\* uc.mem_write: rejected as a whole when any byte falls outside the
\* mapped ranges; permissions are not checked.
CanWrite(v, a, data) == Range(a, Len(data)) \subseteq MappedAddrs(v)

MemWrite(v, a, data) ==
    [v EXCEPT !.mem = [x \in Addr |->
        IF x \in Range(a, Len(data)) THEN data[x - a + 1] ELSE @[x]]]

\* uc.mem_unmap of an exact mapped range; its content is discarded.
IsMapped(v, a, s) == \E m \in v.mapped : m.address = a /\ m.size = s

MemUnmap(v, a, s) ==
    [v EXCEPT !.mapped = {m \in @ : ~(m.address = a /\ m.size = s)},
              !.mem = [x \in Addr |-> IF x \in Range(a, s) THEN 0 ELSE @[x]]]

RegWrite(v, r, x) == [v EXCEPT !.regs[r] = x]

\* An instruction can be fetched when all its bytes lie in ranges mapped
\* executable.
Executable(v, a) ==
    \E m \in v.mapped : a \in RangeOf(m) /\ "EXEC" \in m.perm
Fetchable(v, a) ==
    /\ a \in Addr /\ Executable(v, a)
    /\ \A x \in Range(a, InsnSize) : x \in Addr /\ Executable(v, x)
\* Only OpA executes; every other opcode byte (OpF, zero memory, a stray
\* operand) raises a backend error when executed.
Faults(b) == b # OpA

\* --------------------------------------------------------- create_new_vm
AllHooks == {"UC_HOOK_BLOCK", "UC_HOOK_CODE", "UC_HOOK_INTR",
             "UC_HOOK_MEM_WRITE", "UC_HOOK_MEM_READ"}

\* create_new_vm without the hook_add of the per-instruction hook.
create_new_vm_NoCodeHook ==
    [live |-> TRUE, hooks |-> AllHooks \ {"UC_HOOK_CODE"}, mapped |-> {}, mem |-> ZeroMem,
     regs |-> [r \in KnownRegs |-> 0]]

create_new_vm ==
    [live |-> TRUE, hooks |-> AllHooks, mapped |-> {}, mem |-> ZeroMem,
     regs |-> [r \in KnownRegs |-> 0]]

\* Dropping the last reference to a VM instance (self.vm = None, del
\* self.vm): the event records how many ranges were still mapped in it.
DropVM(v) == IF v.live THEN <<Ev("drop", "", 0, Cardinality(v.mapped))>> ELSE <<>>

\* ---------------------------------------------------------------- reinit
Reinit ==
    /\ vm' = create_new_vm
    /\ code' = NoneCode
    /\ is_running' = FALSE
    /\ stop_now' = FALSE
    /\ num_insns' = -1
    /\ areas' = {}
    /\ UNCHANGED <<use_step_mode, widget, start_addr, end_addr>>
    /\ lastOp' = Op("reinit", <<>>)
    /\ result' = "None"
    /\ events' = DropVM(vm) \o <<Ev("create_vm", "", 0, 0)>>
    /\ finished' = FALSE
    /\ pipe' = 0

Init ==
    /\ vm = create_new_vm
    /\ code = NoneCode
    /\ is_running = FALSE
    /\ stop_now = FALSE
    /\ num_insns = -1
    /\ areas = {}
    /\ use_step_mode = FALSE
    /\ widget = NoWidget
    /\ start_addr = Unset
    /\ end_addr = Unset
    /\ lastOp = Op("__init__", <<>>)
    /\ result = "None"
    /\ events = <<Ev("create_vm", "", 0, 0)>>
    /\ finished = FALSE
    /\ pipe = 0

\* ------------------------------------------------------- populate_memory
\* self.areas is kept as the set of its items: at most one per name.
HasArea(ar, nm) == \E e \in ar : e.name = nm
AreaOf(ar, nm) == CHOOSE e \in ar : e.name = nm
SetArea_Swapped(ar, nm, a, s, p) ==
    {e \in ar : e.name # nm} \cup {[name |-> nm, address |-> s, size |-> a, perm |-> p]}
SetArea(ar, nm, a, s, p) ==
    {e \in ar : e.name # nm} \cup {[name |-> nm, address |-> a, size |-> s, perm |-> p]}
Take(s, n) == IF Len(s) <= n THEN s ELSE SubSeq(s, 1, n)

\* One iteration of the loop over the layout.  st carries vm, areas, the
\* events so far and the exception raised, if any.
MapOneArea(st, m) ==
    IF ~st.vm.live THEN [st EXCEPT !.exc = "AttributeError"]
    ELSE IF ~CanMap(st.vm, m.address, m.size)
    THEN [st EXCEPT !.exc = "UcError",
                    !.ev = @ \o <<Ev("mem_map_rejected", m.name, m.address, m.size)>>]
    ELSE LET v1 == MemMap(st.vm, m.address, m.size, m.perm)
             ar1 == SetArea(st.areas, m.name, m.address, m.size, m.perm)
             data == Take(m.file.data, m.size)
             v2 == IF m.file.given THEN MemWrite(v1, m.address, data) ELSE v1
             wr == IF m.file.given
                   THEN <<Ev("mem_write", m.name, m.address, Len(data))>> ELSE <<>>
         IN [vm |-> v2, areas |-> ar1, exc |-> "",
             ev |-> st.ev \o <<Ev("mem_map", m.name, m.address, m.size)>> \o wr
                      \o <<Ev("log", "map", m.address, m.size)>>]

RECURSIVE MapAreas(_, _)
MapAreas(st, layout) ==
    IF layout = <<>> \/ st.exc # "" THEN st
    ELSE MapAreas(MapOneArea(st, Head(layout)), Tail(layout))

PopulateMemory(layout) ==
    LET st == MapAreas([vm |-> vm, areas |-> areas, exc |-> "", ev |-> <<>>], layout)
        ok == st.exc = "" /\ HasArea(st.areas, ".text")
    IN /\ vm' = st.vm
       /\ areas' = st.areas
       /\ start_addr' = IF ok THEN AreaOf(st.areas, ".text").address ELSE start_addr
       /\ end_addr' = IF ok THEN Unbounded ELSE end_addr
       /\ result' = IF st.exc # "" THEN st.exc
                    ELSE IF ok THEN "True" ELSE "KeyError"
       /\ events' = st.ev
       /\ lastOp' = Op("populate_memory", layout)
       /\ pipe' = IF ok /\ pipe = 0 /\ HasArea(st.areas, ".stack") THEN 1 ELSE -1
       /\ UNCHANGED <<code, num_insns, is_running, stop_now, use_step_mode,
                      widget, finished>>

\* ---------------------------------------------------- populate_registers
\* unicorn_register: getattr on the architecture's constants fails for a
\* name the architecture does not have.
KnownRegister(r) == r \in KnownRegs

\* One iteration of the loop over the caller's mapping.
SeedOne(st, rv) ==
    IF ~KnownRegister(rv[1]) \/ ~st.vm.live THEN [st EXCEPT !.exc = "AttributeError"]
    ELSE [st EXCEPT !.vm = RegWrite(@, rv[1], rv[2]),
                    !.ev = @ \o <<Ev("reg_write", rv[1], rv[2], 0),
                                  Ev("log", "register", rv[2], 0)>>]

RECURSIVE SeedAll(_, _)
SeedAll(st, seed) ==
    IF seed = <<>> \/ st.exc # "" THEN st
    ELSE SeedAll(SeedOne(st, Head(seed)), Tail(seed))

\* FixPcSp without the two overrides: the caller's PC and SP stay.
FixPcSp_NoOverride(st, ar) ==
    IF st.exc # "" THEN st
    ELSE IF ~st.vm.live THEN [st EXCEPT !.exc = "AttributeError"]
    ELSE IF ~HasArea(ar, ".text") \/ ~HasArea(ar, ".stack") THEN [st EXCEPT !.exc = "KeyError"]
    ELSE st

\* "fix $PC" and "fix $SP" after the loop.
FixPcSp(st, ar) ==
    IF st.exc # "" THEN st
    ELSE IF ~st.vm.live THEN [st EXCEPT !.exc = "AttributeError"]
    ELSE IF ~HasArea(ar, ".text") THEN [st EXCEPT !.exc = "KeyError"]
    ELSE LET v1 == RegWrite(st.vm, PcReg, AreaOf(ar, ".text").address)
             e1 == st.ev \o <<Ev("reg_write", PcReg, AreaOf(ar, ".text").address, 0)>>
         IN IF ~HasArea(ar, ".stack")
            THEN [st EXCEPT !.vm = v1, !.ev = e1, !.exc = "KeyError"]
            ELSE [st EXCEPT
                    !.vm = RegWrite(v1, SpReg, AreaOf(ar, ".stack").address),
                    !.ev = e1 \o <<Ev("reg_write", SpReg, AreaOf(ar, ".stack").address, 0)>>]

PopulateRegisters(seed) ==
    LET st == FixPcSp(SeedAll([vm |-> vm, exc |-> "", ev |-> <<>>], seed), areas)
    IN /\ vm' = st.vm
       /\ result' = IF st.exc # "" THEN st.exc ELSE "True"
       /\ events' = st.ev
       /\ lastOp' = Op("populate_registers", seed)
       /\ pipe' = IF st.exc = "" /\ pipe = 3 THEN 4 ELSE -1
       /\ UNCHANGED <<code, num_insns, is_running, stop_now, use_step_mode, areas,
                      start_addr, end_addr, widget, finished>>

\* ------------------------------------------------------------ compile_code
\* CompiledEndAddr adding the length to the old end_addr instead of start_addr.
CompiledEndAddr_FromEnd(update, start, end, bytes) ==
    IF update THEN end + Len(bytes) ELSE end

\* CompiledEndAddr counting one byte past the code.
CompiledEndAddr_OffByOne(update, start, end, bytes) ==
    IF update THEN start + Len(bytes) + 1 ELSE end

\* "update end_addr since we know the size of the code to execute"
CompiledEndAddr(update, start, end, bytes) ==
    IF update THEN start + Len(bytes) ELSE end

\* asm is what assemble() returned for the joined lines.
CompileCode(asm, update) ==
    LET failed == asm.num < 0
        raises == ~failed /\ update /\ start_addr = Unset
    IN /\ code' = Bytes(asm.code)
       /\ num_insns' = asm.num
       /\ end_addr' = IF failed \/ raises THEN end_addr
                      ELSE CompiledEndAddr(update, start_addr, end_addr, asm.code)
       /\ result' = IF failed THEN "False"
                    ELSE IF raises THEN "AttributeError" ELSE "True"
       /\ events' = <<Ev("log", "assembly", 0, 0)>> \o
                    (IF failed THEN <<Ev("log", "failed-compile", 0, 0)>>
                     ELSE <<Ev("log", "compiled", asm.num, 0)>>)
       /\ lastOp' = Op("compile_code", [asm |-> asm, update |-> update])
       /\ pipe' = IF ~failed /\ ~raises /\ update /\ pipe = 1 THEN 2 ELSE -1
       /\ UNCHANGED <<vm, is_running, stop_now, use_step_mode, areas, start_addr,
                      widget, finished>>

\* ----------------------------------------------------------------- map_code
\* The write of self.code at the .text base, once both checks passed.
WriteCode(v, ar, c) ==
    LET addr == AreaOf(ar, ".text").address
    IN IF ~v.live THEN [vm |-> v, exc |-> "AttributeError", ev |-> <<>>]
       ELSE IF ~CanWrite(v, addr, c.bytes) THEN [vm |-> v, exc |-> "UcError", ev |-> <<>>]
       ELSE [vm |-> MemWrite(v, addr, c.bytes), exc |-> "",
             ev |-> <<Ev("mem_write", ".text", addr, Len(c.bytes))>>]

\* MapCodeCheck without the test of self.code.
MapCodeCheck_NoCodeTest(ar, c) ==
    IF ~HasArea(ar, ".text") THEN "missing-text" ELSE ""

\* The two precondition checks of map_code: the log tag of the one that
\* fails, or "" when both pass.
MapCodeCheck(ar, c) ==
    IF ~HasArea(ar, ".text") THEN "missing-text"
    ELSE IF c.none THEN "no-code"
    ELSE ""

MapCode ==
    /\ lastOp' = Op("map_code", <<>>)
    /\ UNCHANGED <<code, num_insns, is_running, stop_now, use_step_mode, areas,
                   start_addr, end_addr, widget, finished>>
    /\ IF MapCodeCheck(areas, code) # ""
       THEN /\ events' = <<Ev("log", MapCodeCheck(areas, code), 0, 0)>>
            /\ result' = "False"
            /\ pipe' = -1
            /\ UNCHANGED vm
       ELSE LET w == WriteCode(vm, areas, code)
            IN /\ vm' = w.vm
               /\ events' = <<Ev("log", "mapping-text", AreaOf(areas, ".text").address, 0)>>
                             \o w.ev
               /\ result' = IF w.exc # "" THEN w.exc ELSE "True"
               /\ pipe' = IF w.exc = "" /\ pipe = 2 THEN 3 ELSE -1

\* ---------------------------------------------------------------- hook_code
\* The per-instruction hook, called by the backend before the instruction
\* at pc executes.  h carries stop_now, start_addr, the events so far and
\* halt: whether the hook called emu_stop().
hook_code_TraceFirst(h, step, pc) ==
    LET t == [h EXCEPT !.ev = @ \o <<Ev("log", "executing", pc, 0),
                                     Ev("trace", "insn", pc, 0)>>]
    IN IF h.stop_now
       THEN [t EXCEPT !.start_addr = pc,
                      !.halt = TRUE,
                      !.ev = @ \o <<Ev("emu_stop", "hook", pc, 0)>>]
       ELSE [t EXCEPT !.stop_now = IF step THEN TRUE ELSE @]
hook_code(h, step, pc) ==
    IF h.stop_now
    THEN [h EXCEPT !.start_addr = pc,
                   !.halt = TRUE,
                   !.ev = @ \o <<Ev("emu_stop", "hook", pc, 0)>>]
    ELSE [h EXCEPT !.ev = @ \o <<Ev("log", "executing", pc, 0),
                                 Ev("trace", "insn", pc, 0)>>,
                   !.stop_now = IF step THEN TRUE ELSE @]

\* hook_block: called on entry of a block, before its first instruction.
hook_block(h, pc) == [h EXCEPT !.ev = @ \o <<Ev("trace", "block", pc, 0)>>]

\* uc.emu_start(begin, until) from program counter pc on: stops when pc
\* reaches until, when a hook called emu_stop(), or with a backend error.
\* Straight-line code is one block, entered at begin.  The backend calls
\* the hooks that were added to the instance.
RECURSIVE EmuLoop(_, _, _, _, _, _)
EmuLoop(v, until, step, pc, atEntry, h) ==
    IF pc = until THEN [h EXCEPT !.out = "done", !.pc = pc]
    ELSE IF ~Fetchable(v, pc)
    THEN [h EXCEPT !.out = "fault", !.pc = pc,
                   !.ev = @ \o <<Ev("fault", "fetch", pc, 0)>>]
    ELSE LET h1 == IF atEntry /\ "UC_HOOK_BLOCK" \in v.hooks
                   THEN hook_block(h, pc) ELSE h
             h2 == IF "UC_HOOK_CODE" \in v.hooks THEN hook_code(h1, step, pc) ELSE h1
         IN IF h2.halt THEN [h2 EXCEPT !.out = "stopped", !.pc = pc]
            ELSE IF Faults(v.mem[pc])
            THEN [h2 EXCEPT !.out = "fault", !.pc = pc,
                            !.ev = @ \o <<Ev("fault", "insn", pc, 0)>>]
            ELSE EmuLoop(v, until, step, pc + InsnSize, FALSE,
                         [h2 EXCEPT !.ev = @ \o <<Ev("exec", "", pc, 0)>>])

emu_start(v, begin, until, step, stop, start) ==
    EmuLoop(v, until, step, begin, TRUE,
            [stop_now |-> stop, start_addr |-> start, halt |-> FALSE,
             out |-> "", pc |-> begin,
             ev |-> <<Ev("emu_start", "", begin, until)>>])

\* --------------------------------------------------------------------- run
\* OnUcError letting the error escape: no emu_stop, no log line.
OnUcError_Reraise(e) ==
    [ev |-> e.ev, result |-> "UcError", finished |-> FALSE]

\* The except branch: the backend raised UcError.
OnUcError(e) ==
    [ev |-> e.ev \o <<Ev("emu_stop", "run", e.pc, 0), Ev("log", "emulation-error", 0, 0)>>,
     result |-> "None", finished |-> FALSE]

\* After emu_start returned: the end-of-emulation test.  Without a widget
\* the first setDisabled raises AttributeError on None.
OnReturn(e, end, w) ==
    IF e.pc # end
    THEN [ev |-> e.ev, result |-> "None", finished |-> FALSE]
    ELSE [ev |-> e.ev \o <<Ev("trace", "end", e.pc, 0)>> \o
                 (IF w.attached
                  THEN <<Ev("widget", "runButton.setDisabled", 0, 0),
                         Ev("widget", "stepButton.setDisabled", 0, 0)>>
                  ELSE <<>>),
          finished |-> TRUE,
          result |-> IF w.attached THEN "None" ELSE "AttributeError"]

\* run() with self.use_step_mode = step.
RunBody(step) ==
    IF ~vm.live \/ start_addr = Unset
    THEN /\ result' = "AttributeError"
         /\ events' = <<>>
         /\ UNCHANGED <<vm, stop_now, start_addr, finished>>
    ELSE LET e == emu_start(vm, start_addr, end_addr, step, stop_now, start_addr)
             r == IF e.out = "fault" THEN OnUcError(e) ELSE OnReturn(e, end_addr, widget)
         IN /\ vm' = RegWrite(vm, PcReg, e.pc)
            /\ stop_now' = e.stop_now
            /\ start_addr' = e.start_addr
            /\ events' = r.ev
            /\ result' = r.result
            /\ finished' = (finished \/ r.finished)

Run ==
    /\ RunBody(use_step_mode)
    /\ lastOp' = Op("run", <<>>)
    /\ pipe' = -1
    /\ UNCHANGED <<code, num_insns, is_running, use_step_mode, areas, end_addr, widget>>

\* step(): enable step mode, then run().
Step ==
    /\ use_step_mode' = TRUE
    /\ RunBody(TRUE)
    /\ lastOp' = Op("step", <<>>)
    /\ pipe' = IF pipe >= 4 /\ pipe < 4 + MaxInsns + 1 THEN pipe + 1 ELSE -1
    /\ UNCHANGED <<code, num_insns, is_running, areas, end_addr, widget>>

\* -------------------------------------------------------------------- stop
\* UnmapAll without the loop: no region is unmapped.
UnmapAll_Skip(st, ar) ==
    IF ar # {} /\ ~st.vm.live THEN [st EXCEPT !.exc = "AttributeError"] ELSE st

RECURSIVE UnmapAll(_, _)
UnmapAll(st, ar) ==
    IF ar = {} \/ st.exc # "" THEN st
    ELSE LET a == CHOOSE x \in ar : \A y \in ar : x.address <= y.address
         IN IF ~st.vm.live THEN [st EXCEPT !.exc = "AttributeError"]
            ELSE IF ~IsMapped(st.vm, a.address, a.size) THEN [st EXCEPT !.exc = "UcError"]
            ELSE UnmapAll([st EXCEPT !.vm = MemUnmap(@, a.address, a.size),
                                     !.ev = @ \o <<Ev("mem_unmap", a.name, a.address, a.size)>>],
                          ar \ {a})

Stop ==
    LET st == UnmapAll([vm |-> vm, exc |-> "", ev |-> <<>>], areas)
    IN /\ vm' = IF st.exc # "" THEN st.vm ELSE NoVM
       /\ is_running' = IF st.exc # "" THEN is_running ELSE FALSE
       /\ result' = IF st.exc # "" THEN st.exc ELSE "None"
       /\ events' = IF st.exc # "" THEN st.ev ELSE st.ev \o DropVM(st.vm)
       /\ lastOp' = Op("stop", <<>>)
       /\ pipe' = -1
       /\ UNCHANGED <<code, num_insns, stop_now, use_step_mode, areas, start_addr,
                      end_addr, widget, finished>>

\* ------------------------------------------------------ the caller's fields
\* The presentation collaborator attaches itself: emulator.widget = <widget>.
AttachWidget ==
    /\ ~widget.attached
    /\ widget' = [attached |-> TRUE]
    /\ lastOp' = Op("attach_widget", <<>>)
    /\ result' = "None"
    /\ events' = <<>>
    /\ UNCHANGED <<vm, code, num_insns, is_running, stop_now, use_step_mode, areas,
                   start_addr, end_addr, finished, pipe>>

\* The caller leaves step mode: emulator.use_step_mode = False.
ClearStepMode ==
    /\ use_step_mode
    /\ use_step_mode' = FALSE
    /\ lastOp' = Op("clear_step_mode", <<>>)
    /\ result' = "None"
    /\ events' = <<>>
    /\ pipe' = -1
    /\ UNCHANGED <<vm, code, num_insns, is_running, stop_now, areas,
                   start_addr, end_addr, widget, finished>>

\* -------------------------------------------------------------- lookup_map
\* The base address of the region named mapname, or None.
lookup_map(ar, mapname) ==
    IF HasArea(ar, mapname)
    THEN [none |-> FALSE, base |-> AreaOf(ar, mapname).address]
    ELSE [none |-> TRUE, base |-> 0]

\* -------------------------------------------------------------------- spec
DoPopulateMemory == \E layout \in Layouts : PopulateMemory(layout)
DoPopulateRegisters == \E seed \in Seeds : PopulateRegisters(seed)
DoCompileCode == \E asm \in AssembleOutcomes, update \in BOOLEAN : CompileCode(asm, update)

Next ==
    \/ Reinit
    \/ DoPopulateMemory
    \/ DoPopulateRegisters
    \/ DoCompileCode
    \/ MapCode
    \/ Run
    \/ Step
    \/ Stop
    \/ AttachWidget
    \/ ClearStepMode

Spec == Init /\ [][Next]_vars

\* ------------------------------------------------------------------ claims
CountKind(ev, k) == Cardinality({i \in DOMAIN ev : ev[i].k = k})
HasEv(ev, k, t) == \E i \in DOMAIN ev : ev[i].k = k /\ ev[i].t = t
Raised(r) == r \in {"AttributeError", "KeyError", "UcError"}
PC == vm.regs[PcReg]
\* The compiled code holds no faulting instruction.
FaultFree(c) == ~c.none /\ \A i \in DOMAIN c.bytes : c.bytes[i] # OpF
\* pipe >= 4: populate_memory (with .text and .stack), compile_code with
\* update_end_addr, map_code and populate_registers succeeded in this order
\* on a fresh VM, followed by pipe - 4 step() calls and nothing else.
StepsDone == pipe - 4

\* C1 (as claimed): after N consecutive step() calls on a loaded fault-free
\* straight-line program of exactly N >= 1 instructions, the end of emulation
\* has been reported and the program counter equals end_addr.
C1_StepNTimesFinishes ==
    (pipe >= 4 /\ num_insns >= 1 /\ FaultFree(code) /\ StepsDone = num_insns)
        => (finished /\ PC = end_addr)

\* C2 (as claimed): in step mode, a run() that starts before end_addr on a
\* loaded fault-free program that has not finished executes exactly one
\* instruction, and when it halts before end_addr, start_addr equals the
\* program counter.
C2_StepExecutesOne ==
    [][(/\ pipe >= 4 /\ FaultFree(code) /\ ~finished
        /\ lastOp'.op = "step" /\ start_addr < end_addr)
        => (/\ CountKind(events', "exec") = 1
            /\ (vm'.regs[PcReg] # end_addr' => start_addr' = vm'.regs[PcReg]))]_vars

\* C3 (as claimed): once run() has reported the end of emulation, a further
\* run() or step() before reinit() starts no emulation and executes no
\* instruction.
C3_NoRunAfterFinished ==
    [][(finished /\ lastOp'.op \in {"run", "step"})
        => (CountKind(events', "emu_start") = 0 /\ CountKind(events', "exec") = 0)]_vars

\* C4 (as claimed): stop() directly after stop() raises nothing and leaves
\* the state of the first call: no VM instance, not running.
C4_StopIdempotent ==
    [][(lastOp.op = "stop" /\ lastOp'.op = "stop")
        => (/\ ~Raised(result')
            /\ ~vm'.live /\ ~is_running'
            /\ vm' = vm /\ areas' = areas /\ is_running' = is_running)]_vars

\* C5: when .text and .stack exist and populate_registers ran to its end,
\* PC holds the .text base and SP the .stack base, whatever the caller's
\* mapping assigned to them.
C5_SeedFixesPcSp ==
    (/\ lastOp.op = "populate_registers"
     /\ HasArea(areas, ".text") /\ HasArea(areas, ".stack")
     /\ result = "True")
        => (/\ vm.regs[PcReg] = AreaOf(areas, ".text").address
            /\ vm.regs[SpReg] = AreaOf(areas, ".stack").address)

\* C5 witness: a seed whose mapping assigned other values to PC and SP
\* completed, and both registers hold the region bases.
C5_Witness ==
    /\ lastOp.op = "populate_registers" /\ result = "True"
    /\ \E i \in DOMAIN lastOp.arg :
          lastOp.arg[i][1] = PcReg /\ lastOp.arg[i][2] # AreaOf(areas, ".text").address
    /\ \E i \in DOMAIN lastOp.arg :
          lastOp.arg[i][1] = SpReg /\ lastOp.arg[i][2] # AreaOf(areas, ".stack").address
    /\ vm.regs[PcReg] = AreaOf(areas, ".text").address
    /\ vm.regs[SpReg] = AreaOf(areas, ".stack").address

\* C6 (as claimed): run() while no .text region is tracked raises and makes
\* no emu_start call on the backend.
C6_RunWithoutTextFailsEarly ==
    (lastOp.op = "run" /\ ~HasArea(areas, ".text"))
        => (Raised(result) /\ CountKind(events, "emu_start") = 0)

\* C7: a compile with a non-negative instruction count sets end_addr to
\* start_addr + len(code) when update_end_addr is requested (start_addr
\* being set), and leaves end_addr as it was when it is not requested.
C7_CompileEndAddr ==
    [][(lastOp'.op = "compile_code" /\ num_insns' >= 0)
        => IF lastOp'.arg.update
           THEN start_addr # Unset => end_addr' = start_addr' + Len(code'.bytes)
           ELSE end_addr' = end_addr]_vars

\* C7 witness: a compile with update_end_addr succeeded on a program whose
\* byte length differs from its instruction count, and moved end_addr.
C7_Witness ==
    /\ lastOp.op = "compile_code" /\ lastOp.arg.update /\ result = "True"
    /\ num_insns >= 1 /\ Len(code.bytes) # num_insns
    /\ end_addr = start_addr + Len(code.bytes)

\* C8 (as claimed): a failed compile changes no VM memory and not end_addr,
\* and a map_code after it, before any successful compile, writes no byte.
C8_FailedCompileWritesNothing ==
    [][/\ (lastOp'.op = "compile_code" /\ num_insns' < 0)
            => (vm' = vm /\ end_addr' = end_addr)
       /\ (lastOp'.op = "map_code" /\ num_insns < 0 /\ ~code.none)
            => (vm'.mem = vm.mem /\
                \A i \in DOMAIN events' : events'[i].k = "mem_write" => events'[i].n = 0)]_vars

\* READY: a fresh VM instance with its hooks, no regions, no code, no stop
\* request.
Ready ==
    /\ vm.live /\ vm.hooks = AllHooks /\ vm.mapped = {} /\ vm.mem = ZeroMem
    /\ areas = {} /\ code.none /\ num_insns = -1 /\ ~stop_now /\ ~is_running

\* C9 (as claimed): reinit() ends in READY, and the VM instance it dropped
\* had no range mapped any more when it was dropped.
C9_ReinitReleasesMappings ==
    (lastOp.op = "reinit")
        => (Ready /\ \A i \in DOMAIN events : events[i].k = "drop" => events[i].n = 0)

\* C10: when the backend raises during run(), run() calls emu_stop, then
\* writes the failure line to the log, reports no end of emulation, returns
\* without raising, and the VM instance, its mappings, memory and hooks, the
\* regions table and the stack pointer are as before the call.
C10_FaultHandled ==
    [][(lastOp'.op \in {"run", "step"} /\ CountKind(events', "fault") > 0)
        => (/\ Len(events') >= 3
            /\ events'[Len(events') - 2].k = "fault"
            /\ events'[Len(events') - 1] = Ev("emu_stop", "run", vm'.regs[PcReg], 0)
            /\ events'[Len(events')] = Ev("log", "emulation-error", 0, 0)
            /\ ~HasEv(events', "trace", "end")
            /\ finished' = finished
            /\ result' = "None"
            /\ vm'.live /\ vm'.hooks = AllHooks
            /\ vm'.mapped = vm.mapped /\ vm'.mem = vm.mem
            /\ vm'.regs[SpReg] = vm.regs[SpReg]
            /\ areas' = areas)]_vars

\* C10 witness: a run() executed an instruction, then the backend raised,
\* and run() returned with the VM instance still held.
C10_Witness ==
    /\ lastOp.op = "run" /\ result = "None" /\ vm.live
    /\ CountKind(events, "exec") > 0
    /\ CountKind(events, "fault") = 1
    /\ events[Len(events)] = Ev("log", "emulation-error", 0, 0)

\* C11 (as claimed): without a widget, a run() that reaches end_addr emits
\* the end-of-run notice and returns without raising.
C11_FinishWithoutWidget ==
    (/\ lastOp.op \in {"run", "step"} /\ ~widget.attached
     /\ HasEv(events, "trace", "end"))
        => ~Raised(result)

\* C12: whenever a VM instance exists, the block, per-instruction,
\* interrupt and both memory-access hooks are installed on it, and a call
\* that executed an instruction did so on an instance with the
\* per-instruction hook, tracing each executed instruction.
C12_HooksInstalled ==
    /\ vm.live => vm.hooks = AllHooks
    /\ CountKind(events, "exec") > 0
         => (/\ "UC_HOOK_CODE" \in vm.hooks
             /\ \A i \in DOMAIN events : events[i].k = "exec"
                  => \E j \in 1..(i - 1) : events[j] = Ev("trace", "insn", events[i].a, 0))

\* C12 witness: a run() executed two instructions on an instance holding
\* all hooks, each observed by the per-instruction hook.
C12_Witness ==
    /\ lastOp.op = "run" /\ vm.live /\ vm.hooks = AllHooks
    /\ CountKind(events, "exec") = 2
    /\ CountKind(events, "trace") >= 3

\* C13: map_code with no .text region or with no compiled code returns
\* False, writes exactly one log line and changes nothing else; a write to
\* VM memory happens only when both preconditions hold, and it puts the
\* code bytes at the .text base.
C13_MapCodePreconditions ==
    [][(lastOp'.op = "map_code")
        => IF ~HasArea(areas, ".text") \/ code.none
           THEN /\ result' = "False"
                /\ Len(events') = 1 /\ events'[1].k = "log"
                /\ events'[1].t = (IF ~HasArea(areas, ".text")
                                   THEN "missing-text" ELSE "no-code")
                /\ vm' = vm /\ areas' = areas /\ code' = code
                /\ start_addr' = start_addr /\ end_addr' = end_addr
           ELSE /\ result' = "True"
                    => (/\ vm'.mem = MemWrite(vm, AreaOf(areas, ".text").address,
                                              code.bytes).mem
                        /\ HasEv(events', "mem_write", ".text"))
                /\ result' # "True" => vm' = vm
                /\ areas' = areas /\ code' = code
                /\ start_addr' = start_addr /\ end_addr' = end_addr]_vars

\* C13 witness: map_code was refused for lack of compiled code although a
\* .text region holding file content is mapped, and logged one line.
C13_Witness ==
    /\ lastOp.op = "map_code" /\ result = "False"
    /\ HasArea(areas, ".text") /\ code.none
    /\ events = <<Ev("log", "no-code", 0, 0)>>
    /\ vm.mem[AreaOf(areas, ".text").address] = OpA

\* C14: stop() on a live VM instance unmaps every tracked region, drops
\* the instance only after that, as its last step, and ends with no VM
\* instance held and the session not running.
C14_StopUnmapsThenReleases ==
    [][(lastOp'.op = "stop" /\ vm.live)
        => (/\ ~Raised(result')
            /\ ~vm'.live /\ ~is_running'
            /\ events'[Len(events')].k = "drop"
            /\ CountKind(events', "drop") = 1
            /\ CountKind(events', "mem_unmap") = Cardinality(areas)
            /\ \A r \in areas : \E i \in 1..(Len(events') - 1) :
                  events'[i] = Ev("mem_unmap", r.name, r.address, r.size))]_vars

\* C14 witness: a stop() unmapped two tracked regions and then dropped the
\* instance.
C14_Witness ==
    /\ lastOp.op = "stop" /\ result = "None" /\ ~vm.live
    /\ Cardinality(areas) = 2
    /\ Len(events) = 3
    /\ events[3] = Ev("drop", "", 0, 0)

\* C15 (as claimed): a failing register seed, region mapping, compile, load
\* or run leaves a log line that characterizes the failure.
FailureTags == {"missing-text", "no-code", "failed-compile", "emulation-error"}
C15_EveryFailureLogged ==
    (/\ lastOp.op \in {"populate_registers", "populate_memory", "compile_code",
                       "map_code", "run", "step"}
     /\ (Raised(result) \/ result = "False" \/ CountKind(events, "fault") > 0))
        => \E i \in DOMAIN events : events[i].k = "log" /\ events[i].t \in FailureTags

\* C16: a populate_memory that returned True for a layout containing .text
\* tracks every listed region with its base, size and permissions, sets
\* start_addr to the .text base (what lookup_map resolves) and end_addr to
\* the unbounded sentinel.
C16_PopulateRecordsRegions ==
    (/\ lastOp.op = "populate_memory" /\ result = "True"
     /\ \E i \in DOMAIN lastOp.arg : lastOp.arg[i].name = ".text")
        => (/\ \A i \in DOMAIN lastOp.arg :
                  [name |-> lastOp.arg[i].name, address |-> lastOp.arg[i].address,
                   size |-> lastOp.arg[i].size, perm |-> lastOp.arg[i].perm] \in areas
            /\ \A i \in DOMAIN lastOp.arg :
                  lastOp.arg[i].name = ".text" => start_addr = lastOp.arg[i].address
            /\ lookup_map(areas, ".text") = [none |-> FALSE, base |-> start_addr]
            /\ end_addr = Unbounded)

\* C16 witness: a populate_memory of a two-region layout returned True
\* while code compiled earlier is still held, and end_addr is unbounded.
C16_Witness ==
    /\ lastOp.op = "populate_memory" /\ result = "True"
    /\ Len(lastOp.arg) = 2 /\ Cardinality(areas) = 2
    /\ num_insns >= 1
    /\ start_addr = 1 /\ end_addr = Unbounded

\* C17 (as claimed): once the per-instruction hook has observed the stop
\* request and halted the backend, stop_now is false again, so the next
\* run() starts with it cleared.
C17_StopRequestConsumed ==
    (lastOp.op \in {"run", "step"} /\ HasEv(events, "emu_stop", "hook"))
        => ~stop_now

\* C18 (as claimed): a run() made while step mode is not active is never
\* halted by the per-instruction hook, whatever was called before it.
C18_NoHookHaltOutsideStepMode ==
    (lastOp.op = "run" /\ ~use_step_mode)
        => ~HasEv(events, "emu_stop", "hook")

\* Events of one run()/step() call: the indexes of the instruction trace
\* lines strictly between lo and hi, and the last executed instruction
\* before index i (0 when there is none).
TraceIdx(ev, lo, hi) ==
    {j \in (lo + 1)..(hi - 1) : ev[j].k = "trace" /\ ev[j].t = "insn"}
PrevExec(ev, i) ==
    LET s == {j \in 1..(i - 1) : ev[j].k = "exec"}
    IN IF s = {} THEN 0 ELSE CHOOSE j \in s : \A m \in s : m <= j

\* C19: in every run() or step() call, each executed instruction has
\* exactly one trace line, for its own address, between the previous
\* executed instruction and itself (so trace lines come in execution
\* order), and a hook invocation that halts the backend on a stop request
\* emits no instruction trace line and no instruction executes after it.
C19_TraceBeforeExec ==
    lastOp.op \in {"run", "step"} =>
        \A i \in DOMAIN events :
            /\ events[i].k = "exec" =>
                  /\ Cardinality(TraceIdx(events, PrevExec(events, i), i)) = 1
                  /\ \A j \in TraceIdx(events, PrevExec(events, i), i) :
                        events[j].a = events[i].a
            /\ (events[i].k = "emu_stop" /\ events[i].t = "hook") =>
                  /\ TraceIdx(events, PrevExec(events, i), i) = {}
                  /\ \A j \in (i + 1)..Len(events) :
                        /\ events[j].k # "exec"
                        /\ ~(events[j].k = "trace" /\ events[j].t = "insn")

\* C19 witness: one step() call traced and executed an instruction and
\* then halted in the hook at the following instruction.
C19_Witness ==
    /\ lastOp.op = "step"
    /\ CountKind(events, "exec") = 1
    /\ HasEv(events, "trace", "insn")
    /\ HasEv(events, "emu_stop", "hook")
    /\ events[Len(events)].a = start_addr

\* The base of the tracked .text region.
TextBase(ar) == AreaOf(ar, ".text").address

====
